---- MODULE Spec2Model ----
(***************************************************************************)
(* Model of the causal-graph timeline page (GraphPage.tsx): the React      *)
(* state of the page, its effects (playback timer, snapshot loading,       *)
(* Cytoscape construction, part filter) and the event handlers bound to    *)
(* the graph and to the timeline controls.                                 *)
(*                                                                         *)
(* One action is one event-loop task: a user event, a timer tick or the    *)
(* resumption of an awaited fetch, together with the render it causes and  *)
(* every effect (cleanup, then body) whose dependencies changed.           *)
(*                                                                         *)
(* Encodings: scores and deltas are in hundredths (4.0 is 400, 0.1 is 10); *)
(* playback speed is in percent (0.5x is 50); a snapshot detail is         *)
(* identified by its index; NoSnapshot / NoTimer / "null" stand for null.  *)
(***************************************************************************)
EXTENDS Integers, Sequences, FiniteSets, TLC

\* ------------------------------------------------------------------ bounds
MaxSnapshots == 3
MaxSnapshotFetches == 2
MaxDetailFetches == 2
MaxTimers == 3
MaxAuthCalls == 2

\* --------------------------------------------------------------- constants
BaseIntervalMs == 2000
ChangeEpsilon == 10
NoSnapshot == -1
NoTimer == 0
NoScore == -1
Null == "null"

SPEED_OPTIONS == {50, 100, 200, 400}

PART_COLORS == [p \in {"I", "II", "III", "IV"} |->
                  CASE p = "I" -> "#9333ea"
                    [] p = "II" -> "#dc2626"
                    [] p = "III" -> "#16a34a"
                    [] p = "IV" -> "#2563eb"]

PartOptions == {"all", "I", "II", "III", "IV"}

\* variant: the band boundaries belong to the lower band
getScoreColorExclusive(score) ==
  IF score > 400 THEN "#16a34a"
  ELSE IF score > 300 THEN "#eab308"
  ELSE IF score > 200 THEN "#f97316"
  ELSE "#dc2626"

\* getScoreColor(score): green, yellow, orange, red
getScoreColor(score) ==
  IF score >= 400 THEN "#16a34a"
  ELSE IF score >= 300 THEN "#eab308"
  ELSE IF score >= 200 THEN "#f97316"
  ELSE "#dc2626"

\* ------------------------------------------------- backend payloads (input)
\* GET /api/v1/graph/standards: the topology "T1".  II-4 has an incoming and
\* an outgoing edge, e2 leaves part II, and I-1 has no edge.  A refetch
\* delivers the same topology in a new data object.
GraphRevisions == {"T1"}

GraphNodes(g) == IF g = "none" THEN {} ELSE {"I-1", "II-1", "II-4", "III-2"}

NodePart(n) ==
  CASE n = "I-1" -> "I"
    [] n = "II-1" -> "II"
    [] n = "II-4" -> "II"
    [] n = "III-2" -> "III"

NodeBaseColor(n) == PART_COLORS[NodePart(n)]

E1 == [id |-> "e1", source |-> "II-1", target |-> "II-4"]
E2 == [id |-> "e2", source |-> "II-4", target |-> "III-2"]

GraphEdges(g) ==
  CASE g = "none" -> {}
    [] g = "T1" -> {E1, E2}

EdgeIds(g) == {e.id : e \in GraphEdges(g)}
EdgeById(g, id) == CHOOSE e \in GraphEdges(g) : e.id = id
Elements(g) == GraphNodes(g) \cup EdgeIds(g)

\* GET /api/v1/timeline/snapshots/{index}: scores per chapter (NoScore when
\* the chapter is absent from `scores`) and the list of changes.
SnapshotScores(i) ==
  CASE i % 3 = 0 -> [n \in GraphNodes("T1") |->
                       CASE n = "I-1" -> 450 [] n = "II-1" -> 300
                         [] n = "II-4" -> 250 [] n = "III-2" -> NoScore]
    [] i % 3 = 1 -> [n \in GraphNodes("T1") |->
                       CASE n = "I-1" -> 400 [] n = "II-1" -> 310
                         [] n = "II-4" -> 199 [] n = "III-2" -> 200]
    [] i % 3 = 2 -> [n \in GraphNodes("T1") |->
                       CASE n = "I-1" -> 399 [] n = "II-1" -> NoScore
                         [] n = "II-4" -> 299 [] n = "III-2" -> 300]

SnapshotChanges(i) ==
  CASE i % 3 = 0 -> << [chapter_id |-> "II-4", change |-> -10] >>
    [] i % 3 = 1 -> << [chapter_id |-> "II-1", change |-> 10],
                       [chapter_id |-> "II-4", change |-> 51],
                       [chapter_id |-> "III-2", change |-> 11] >>
    [] i % 3 = 2 -> << [chapter_id |-> "I-1", change |-> -11],
                       [chapter_id |-> "II-1", change |-> -20],
                       [chapter_id |-> "II-4", change |-> -10],
                       [chapter_id |-> "III-2", change |-> 100] >>

SnapshotList(n) == [k \in 1..n |-> k - 1]

\* ------------------------------------------------------------------- state
VARIABLES
  mounted,              \* the page component is mounted
  graphData,            \* useQuery(['standards-graph']).data: "none" or a revision
  mountGraphData,       \* graphData as seen by the first render's closures
  cyRef,                \* cyRef.current: Null or "cy"
  classes,              \* element id -> set of Cytoscape classes
  hidden,               \* elements with display: none
  nodeColor,            \* node id -> background colour
  selectedPart,
  selectedNode,
  selectedEdge,
  chapterDetail,
  relationshipDetail,
  isLoadingDetail,
  detailFetches,        \* awaited getChapterDetail / getRelationshipDetail calls
  isTimelineMode,
  snapshots,
  currentSnapshotIndex,
  currentSnapshot,
  isPlaying,
  playbackSpeed,
  playIntervalRef,      \* playIntervalRef.current
  timers,               \* live setInterval timers
  snapFetches,          \* awaited getSnapshot calls of loadSnapshot
  layoutRuns,           \* layout.run() calls of the filter effect, modulo 2
  user,                 \* useAuthStore: the signed-in user or Null
  token,
  isAuthenticated,
  isLoading,
  error,
  localStorage,         \* localStorage.getItem(TOKEN_KEY): a token or Null
  authCalls,            \* awaited authApi.login / authApi.getCurrentUser calls
  loggedOut             \* history: logout() ran and no login() succeeded since

graphVars == <<graphData, mountGraphData, cyRef, classes, hidden, nodeColor>>
selectionVars == <<selectedPart, selectedNode, selectedEdge, chapterDetail,
                   relationshipDetail, isLoadingDetail, detailFetches>>
timelineVars == <<isTimelineMode, snapshots, currentSnapshotIndex, currentSnapshot,
                  isPlaying, playbackSpeed, playIntervalRef,
                  timers, snapFetches>>
authVars == <<user, token, isAuthenticated, isLoading, error, localStorage,
              authCalls, loggedOut>>
pageVars == <<mounted, graphVars, selectionVars, timelineVars, layoutRuns>>
vars == <<pageVars, authVars>>

\* --------------------------------------------------------------- auth store
Tokens == {"t1", "t2"}
TheUser == "u1"
LoginFailed == "Login failed. Please try again."

\* set({user, token, isAuthenticated, isLoading, error})
AuthSet(u, t, a, l, e) ==
  /\ user' = u
  /\ token' = t
  /\ isAuthenticated' = a
  /\ isLoading' = l
  /\ error' = e

\* the store while a protected page is on screen: a finished sign-in
SignedIn ==
  /\ user = TheUser
  /\ token = "t1"
  /\ isAuthenticated = TRUE
  /\ isLoading = FALSE
  /\ error = Null
  /\ localStorage = "t1"
  /\ authCalls = << >>
  /\ loggedOut = FALSE

\* what ProtectedRoute renders
ProtectedRoute ==
  IF isLoading THEN "loading"
  ELSE IF ~isAuthenticated THEN "login"
  ELSE "children"


\* ------------------------------------------------------ Cytoscape instance
\* cytoscape({elements, style}): no classes, everything displayed, nodes
\* coloured by data(color).
NewClasses(g) == [e \in Elements(g) |-> {}]
NewColors(g) == [n \in GraphNodes(g) |-> NodeBaseColor(n)]

highlighted == {e \in DOMAIN classes : "highlighted" \in classes[e]}
faded == {e \in DOMAIN classes : "faded" \in classes[e]}

\* ele.visible(): display is not none; an edge also needs both endpoints.
NodeVisible(h, n) == n \notin h
EdgeVisible(g, h, id) ==
  /\ id \notin h
  /\ NodeVisible(h, EdgeById(g, id).source)
  /\ NodeVisible(h, EdgeById(g, id).target)

Init ==
  /\ mounted = TRUE
  /\ graphData \in {"none"} \cup GraphRevisions
  /\ mountGraphData = graphData
  /\ cyRef = IF graphData = "none" THEN Null ELSE "cy"
  /\ classes = NewClasses(graphData)
  /\ hidden = {}
  /\ nodeColor = NewColors(graphData)
  /\ selectedPart = "all"
  /\ selectedNode = Null
  /\ selectedEdge = Null
  /\ chapterDetail = Null
  /\ relationshipDetail = Null
  /\ isLoadingDetail = FALSE
  /\ detailFetches = << >>
  /\ isTimelineMode = FALSE
  /\ snapshots = << >>
  /\ currentSnapshotIndex = 0
  /\ currentSnapshot = NoSnapshot
  /\ isPlaying = FALSE
  /\ playbackSpeed = 100
  /\ playIntervalRef = NoTimer
  /\ timers = {}
  /\ snapFetches = << >>
  /\ layoutRuns = 0
  /\ SignedIn


\* ------------------------------------------------------------ node colours
Min(S) == CHOOSE x \in S : \A y \in S : x <= y

\* variant: the epsilon tests written with >= and <=
ChangeClassInclusive(i, id) ==
  LET changes == SnapshotChanges(i)
      hits == {k \in 1..Len(changes) : changes[k].chapter_id = id}
  IN IF hits = {} THEN {}
     ELSE LET change == changes[Min(hits)].change
          IN IF change >= ChangeEpsilon THEN {"improved"}
             ELSE IF change <= -ChangeEpsilon THEN {"declined"}
             ELSE {}

\* snapshot.changes.find(c => c.chapter_id === id), then the epsilon test
ChangeClass(i, id) ==
  LET changes == SnapshotChanges(i)
      hits == {k \in 1..Len(changes) : changes[k].chapter_id = id}
  IN IF hits = {} THEN {}
     ELSE LET change == changes[Min(hits)].change
          IN IF change > ChangeEpsilon THEN {"improved"}
             ELSE IF change < -ChangeEpsilon THEN {"declined"}
             ELSE {}

\* renderChangeIndicator(change): the icon shown in the changes panel
renderChangeIndicator(change) ==
  IF change > ChangeEpsilon THEN "TrendingUp"
  ELSE IF change < -ChangeEpsilon THEN "TrendingDown"
  ELSE "Minus"

\* updateNodeColors(snapshot): only nodes with a score are touched
updateNodeColorsStyle(colors, i) ==
  [n \in DOMAIN colors |->
     IF SnapshotScores(i)[n] # NoScore
       THEN getScoreColor(SnapshotScores(i)[n])
       ELSE colors[n]]

updateNodeColorsClasses(cls, i) ==
  [e \in DOMAIN cls |->
     IF e \in DOMAIN SnapshotScores(i) /\ SnapshotScores(i)[e] # NoScore
       THEN (cls[e] \ {"improved", "declined"}) \cup ChangeClass(i, e)
       ELSE cls[e]]

\* resetNodeColors(), as called from toggleTimelineMode: the callback is
\* memoised with no dependencies, so its `graphData` is the first render's.
resetNodeColorsStyle(colors) ==
  IF cyRef = Null \/ mountGraphData = "none" THEN colors
  ELSE [n \in DOMAIN colors |-> NodeBaseColor(n)]

resetNodeColorsClasses(cls) ==
  IF cyRef = Null \/ mountGraphData = "none" THEN cls
  ELSE [e \in DOMAIN cls |->
          IF e \in DOMAIN nodeColor THEN cls[e] \ {"improved", "declined"}
          ELSE cls[e]]

\* ---------------------------------------------------------- playback timer
ClearInterval(tms, id) == {t \in tms : t.id # id}

\* setInterval returns an id that no live timer has
TimerIdFree(k, tms) == \A t \in tms : t.id # k

CanSetInterval(tms) == \E k \in 1..MaxTimers : TimerIdFree(k, tms)

FreshTimerId(tms) == Min({k \in 1..MaxTimers : TimerIdFree(k, tms)})

\* variant: a cleanup that leaves the interval running
PlaybackCleanupKeepsTimer(ref, tms) == tms

\* cleanup of the playback effect: clears the timer but keeps the ref
PlaybackCleanup(ref, tms) ==
  IF ref # NoTimer THEN ClearInterval(tms, ref) ELSE tms

\* variant: the interval grows with the speed multiplier
PlaybackBodySlowsDown(playing, speed, len, ref, tms) ==
  IF playing /\ len > 0
    THEN LET id == FreshTimerId(tms)
         IN [ref |-> id,
             timers |-> tms \cup {[id |-> id, len |-> len,
                                   interval |-> (BaseIntervalMs * speed) \div 100]}]
    ELSE IF ref # NoTimer
           THEN [ref |-> NoTimer, timers |-> ClearInterval(tms, ref)]
           ELSE [ref |-> ref, timers |-> tms]

\* body of the playback effect; the tick closure keeps snapshots.length
PlaybackBody(playing, speed, len, ref, tms) ==
  IF playing /\ len > 0
    THEN LET id == FreshTimerId(tms)
         IN [ref |-> id,
             timers |-> tms \cup {[id |-> id, len |-> len,
                                   interval |-> (BaseIntervalMs * 100) \div speed]}]
    ELSE IF ref # NoTimer
           THEN [ref |-> NoTimer, timers |-> ClearInterval(tms, ref)]
           ELSE [ref |-> ref, timers |-> tms]

\* useEffect(..., [isPlaying, playbackSpeed, snapshots.length])
PlaybackEffect(playing, speed, len) ==
  IF playing # isPlaying \/ speed # playbackSpeed \/ len # Len(snapshots)
    THEN LET cleaned == PlaybackCleanup(playIntervalRef, timers)
             r == PlaybackBody(playing, speed, len, playIntervalRef, cleaned)
         IN /\ (playing /\ len > 0) => CanSetInterval(cleaned)
            /\ playIntervalRef' = r.ref
            /\ timers' = r.timers
    ELSE UNCHANGED <<playIntervalRef, timers>>

\* loadSnapshot(index) up to its await: one getSnapshot(index) call
loadSnapshot(fetches, index) == Append(fetches, index)

\* useEffect(..., [isTimelineMode, currentSnapshotIndex, snapshots])
LoadEffect(tl, snaps, idx) ==
  IF /\ (tl # isTimelineMode \/ idx # currentSnapshotIndex \/ snaps # snapshots)
     /\ tl /\ Len(snaps) > 0
    THEN /\ Len(snapFetches) < MaxSnapshotFetches
         /\ snapFetches' = loadSnapshot(snapFetches, idx)
    ELSE UNCHANGED snapFetches

\* a render with new timeline state, followed by the effects it triggers
TimelineRender(tl, snaps, idx, playing, speed) ==
  /\ isTimelineMode' = tl
  /\ snapshots' = snaps
  /\ currentSnapshotIndex' = idx
  /\ isPlaying' = playing
  /\ playbackSpeed' = speed
  /\ PlaybackEffect(playing, speed, Len(snaps))
  /\ LoadEffect(tl, snaps, idx)

\* ------------------------------------------------------ timeline handlers
PageRendered == mounted /\ graphData # "none"

TimelineControlsShown == PageRendered /\ isTimelineMode /\ Len(snapshots) > 0

AtEnd == currentSnapshotIndex >= Len(snapshots) - 1

Math_max(a, b) == IF a >= b THEN a ELSE b
Math_min(a, b) == IF a <= b THEN a ELSE b

\* variant: a slider without the max attribute
RangeInputValueNoMax(i, min, max) == IF i < min THEN min ELSE i

\* <input type="range" min max>: the value is clamped to [min, max]
RangeInputValue(i, min, max) ==
  IF max < min THEN min
  ELSE IF i < min THEN min
  ELSE IF i > max THEN max
  ELSE i

ScrubInputs == -1 .. (MaxSnapshots + 1)

SnapshotsLoaded(n) ==
  /\ mounted
  /\ SnapshotList(n) # snapshots
  /\ TimelineRender(isTimelineMode, SnapshotList(n), currentSnapshotIndex,
                    isPlaying, playbackSpeed)
  /\ UNCHANGED <<authVars, mounted, layoutRuns, graphVars, selectionVars, currentSnapshot>>

toggleTimelineMode ==
  /\ PageRendered
  /\ IF isTimelineMode
       THEN /\ nodeColor' = resetNodeColorsStyle(nodeColor)
            /\ classes' = resetNodeColorsClasses(classes)
            /\ TimelineRender(FALSE, snapshots, currentSnapshotIndex, FALSE,
                              playbackSpeed)
       ELSE /\ UNCHANGED <<nodeColor, classes>>
            /\ TimelineRender(TRUE, snapshots, currentSnapshotIndex, isPlaying,
                              playbackSpeed)
  /\ UNCHANGED <<authVars, mounted, layoutRuns, graphData, mountGraphData, cyRef, hidden, selectionVars,
                 currentSnapshot>>

\* variant: a Play button that is never disabled
handlePlayAtEnd ==
  /\ TimelineControlsShown
  /\ ~isPlaying
  /\ TimelineRender(isTimelineMode, snapshots, currentSnapshotIndex, TRUE,
                    playbackSpeed)
  /\ UNCHANGED <<authVars, mounted, layoutRuns, graphVars, selectionVars, currentSnapshot>>

\* the Play button (rendered while paused, disabled at the last index)
handlePlay ==
  /\ TimelineControlsShown
  /\ ~isPlaying
  /\ ~AtEnd
  /\ TimelineRender(isTimelineMode, snapshots, currentSnapshotIndex, TRUE,
                    playbackSpeed)
  /\ UNCHANGED <<authVars, mounted, layoutRuns, graphVars, selectionVars, currentSnapshot>>

\* setIsPlaying(v) with the render and the effects it causes; setting the
\* value the state already has causes no render
setIsPlaying(v) ==
  /\ mounted
  /\ TimelineRender(isTimelineMode, snapshots, currentSnapshotIndex, v,
                    playbackSpeed)
  /\ UNCHANGED <<authVars, mounted, layoutRuns, graphVars, selectionVars, currentSnapshot>>

\* variant: pausing also rewinds to the first snapshot
handlePauseRewinds ==
  /\ TimelineControlsShown
  /\ isPlaying
  /\ TimelineRender(isTimelineMode, snapshots, 0, FALSE, playbackSpeed)
  /\ UNCHANGED <<authVars, mounted, layoutRuns, graphVars, selectionVars, currentSnapshot>>

\* the Pause button (rendered in place of Play while playing)
handlePause ==
  /\ TimelineControlsShown
  /\ isPlaying
  /\ TimelineRender(isTimelineMode, snapshots, currentSnapshotIndex, FALSE,
                    playbackSpeed)
  /\ UNCHANGED <<authVars, mounted, layoutRuns, graphVars, selectionVars, currentSnapshot>>

handlePrevious ==
  /\ TimelineControlsShown
  /\ currentSnapshotIndex # 0
  /\ TimelineRender(isTimelineMode, snapshots,
                    Math_max(0, currentSnapshotIndex - 1), FALSE, playbackSpeed)
  /\ UNCHANGED <<authVars, mounted, layoutRuns, graphVars, selectionVars, currentSnapshot>>

handleNext ==
  /\ TimelineControlsShown
  /\ ~AtEnd
  /\ TimelineRender(isTimelineMode, snapshots,
                    Math_min(Len(snapshots) - 1, currentSnapshotIndex + 1),
                    FALSE, playbackSpeed)
  /\ UNCHANGED <<authVars, mounted, layoutRuns, graphVars, selectionVars, currentSnapshot>>

handleReset ==
  /\ TimelineControlsShown
  /\ TimelineRender(isTimelineMode, snapshots, 0, FALSE, playbackSpeed)
  /\ UNCHANGED <<authVars, mounted, layoutRuns, graphVars, selectionVars, currentSnapshot>>

SkipToEnd ==
  /\ TimelineControlsShown
  /\ TimelineRender(isTimelineMode, snapshots, Len(snapshots) - 1, isPlaying,
                    playbackSpeed)
  /\ UNCHANGED <<authVars, mounted, layoutRuns, graphVars, selectionVars, currentSnapshot>>

SetSpeed(m) ==
  /\ TimelineControlsShown
  /\ m # playbackSpeed
  /\ TimelineRender(isTimelineMode, snapshots, currentSnapshotIndex, isPlaying, m)
  /\ UNCHANGED <<authVars, mounted, layoutRuns, graphVars, selectionVars, currentSnapshot>>

Scrub(i) ==
  /\ TimelineControlsShown
  /\ TimelineRender(isTimelineMode, snapshots,
                    RangeInputValue(i, 0, Len(snapshots) - 1), FALSE,
                    playbackSpeed)
  /\ UNCHANGED <<authVars, mounted, layoutRuns, graphVars, selectionVars, currentSnapshot>>

\* variant: the end test written as prev > snapshots.length - 1
TickPastEnd(t) ==
  /\ t \in timers
  /\ IF mounted
       THEN IF currentSnapshotIndex > t.len - 1
              THEN TimelineRender(isTimelineMode, snapshots, currentSnapshotIndex,
                                  FALSE, playbackSpeed)
              ELSE TimelineRender(isTimelineMode, snapshots,
                                  currentSnapshotIndex + 1, isPlaying,
                                  playbackSpeed)
       ELSE UNCHANGED timelineVars
  /\ UNCHANGED <<authVars, mounted, layoutRuns, graphVars, selectionVars, currentSnapshot>>

\* the setInterval callback of timer t
Tick(t) ==
  /\ t \in timers
  /\ IF mounted
       THEN IF currentSnapshotIndex >= t.len - 1
              THEN TimelineRender(isTimelineMode, snapshots, currentSnapshotIndex,
                                  FALSE, playbackSpeed)
              ELSE TimelineRender(isTimelineMode, snapshots,
                                  currentSnapshotIndex + 1, isPlaying,
                                  playbackSpeed)
       ELSE UNCHANGED timelineVars
  /\ UNCHANGED <<authVars, mounted, layoutRuns, graphVars, selectionVars, currentSnapshot>>

RemoveAt(s, k) == SubSeq(s, 1, k - 1) \o SubSeq(s, k + 1, Len(s))

\* variant: a rejected getSnapshot drops the snapshot on display
SnapshotResolveClearsOnFailure(k, ok) ==
  /\ k \in 1..Len(snapFetches)
  /\ snapFetches' = RemoveAt(snapFetches, k)
  /\ IF ok /\ mounted
       THEN /\ currentSnapshot' = snapFetches[k]
            /\ IF cyRef # Null
                 THEN /\ nodeColor' = updateNodeColorsStyle(nodeColor, snapFetches[k])
                      /\ classes' = updateNodeColorsClasses(classes, snapFetches[k])
                 ELSE UNCHANGED <<nodeColor, classes>>
       ELSE /\ currentSnapshot' = NoSnapshot
            /\ UNCHANGED <<nodeColor, classes>>
  /\ UNCHANGED <<authVars, mounted, layoutRuns, graphData, mountGraphData, cyRef, hidden, selectionVars,
                 isTimelineMode, snapshots, currentSnapshotIndex, isPlaying,
                 playbackSpeed, playIntervalRef, timers>>

\* loadSnapshot after its await: getSnapshot resolved (ok) or rejected
SnapshotResolve(k, ok) ==
  /\ k \in 1..Len(snapFetches)
  /\ snapFetches' = RemoveAt(snapFetches, k)
  /\ IF ok /\ mounted
       THEN /\ currentSnapshot' = snapFetches[k]
            /\ IF cyRef # Null
                 THEN /\ nodeColor' = updateNodeColorsStyle(nodeColor, snapFetches[k])
                      /\ classes' = updateNodeColorsClasses(classes, snapFetches[k])
                 ELSE UNCHANGED <<nodeColor, classes>>
       ELSE UNCHANGED <<currentSnapshot, nodeColor, classes>>
  /\ UNCHANGED <<authVars, mounted, layoutRuns, graphData, mountGraphData, cyRef, hidden, selectionVars,
                 isTimelineMode, snapshots, currentSnapshotIndex, isPlaying,
                 playbackSpeed, playIntervalRef, timers>>

\* -------------------------------------------------- graph data and unmount
\* the standards-graph query delivers a new data object: the Cytoscape
\* effect destroys the old instance and builds a new one
GraphDataLoaded(g) ==
  /\ mounted
  /\ graphData' = g
  /\ cyRef' = "cy"
  /\ classes' = NewClasses(g)
  /\ hidden' = {}
  /\ nodeColor' = NewColors(g)
  /\ UNCHANGED <<authVars, mounted, layoutRuns, mountGraphData, selectionVars, timelineVars>>

\* unmount: every effect's cleanup runs
Unmount ==
  /\ mounted
  /\ mounted' = FALSE
  /\ timers' = PlaybackCleanup(playIntervalRef, timers)
  /\ cyRef' = Null
  /\ classes' = NewClasses("none")
  /\ hidden' = {}
  /\ nodeColor' = NewColors("none")
  /\ UNCHANGED <<authVars, layoutRuns, graphData, mountGraphData, selectionVars, isTimelineMode, snapshots,
                 currentSnapshotIndex, currentSnapshot, isPlaying, playbackSpeed,
                 playIntervalRef, snapFetches>>


\* ------------------------------------------------- selection and filtering
HighlightClasses == {"highlighted", "faded"}

\* node.connectedEdges(): the edges having the node as source or target
connectedEdges(g, n) ==
  {e.id : e \in {x \in GraphEdges(g) : x.source = n \/ x.target = n}}

\* edges.connectedNodes(): the endpoints of the edges
connectedNodes(g, es) ==
  UNION {{EdgeById(g, id).source, EdgeById(g, id).target} : id \in es}

\* variant: only 'highlighted' is removed
ClearHighlightKeepsFaded(cls) == [e \in DOMAIN cls |-> cls[e] \ {"highlighted"}]

\* cy.elements().removeClass('highlighted faded')
ClearHighlight(cls) == [e \in DOMAIN cls |-> cls[e] \ HighlightClasses]

AddClass(cls, eles, c) ==
  [e \in DOMAIN cls |-> IF e \in eles THEN cls[e] \cup {c} ELSE cls[e]]

\* tap on a node: fade everything but the node, its edges and their endpoints
TapNodeClasses(g, cls, n) ==
  LET ce == connectedEdges(g, n)
      cn == connectedNodes(g, ce)
      rest == (DOMAIN cls \ {n}) \ (ce \cup cn)
  IN AddClass(AddClass(AddClass(ClearHighlight(cls), rest, "faded"),
                       ce, "highlighted"),
              cn, "highlighted")

\* variant: the previous highlight is not removed first
TapEdgeClassesKeepsOld(g, cls, id) ==
  LET cn == connectedNodes(g, {id})
      rest == (DOMAIN cls \ {id}) \ cn
  IN AddClass(AddClass(AddClass(cls, rest, "faded"),
                       {id}, "highlighted"),
              cn, "highlighted")

\* tap on an edge: fade everything but the edge and its endpoints
TapEdgeClasses(g, cls, id) ==
  LET cn == connectedNodes(g, {id})
      rest == (DOMAIN cls \ {id}) \ cn
  IN AddClass(AddClass(AddClass(ClearHighlight(cls), rest, "faded"),
                       {id}, "highlighted"),
              cn, "highlighted")

\* only displayed elements of the live instance receive taps
CanTap == mounted /\ cyRef # Null

TapNode(n) ==
  /\ CanTap
  /\ n \in GraphNodes(graphData)
  /\ NodeVisible(hidden, n)
  /\ Len(detailFetches) < MaxDetailFetches
  /\ selectedNode' = n
  /\ selectedEdge' = Null
  /\ relationshipDetail' = Null
  /\ classes' = TapNodeClasses(graphData, classes, n)
  /\ isLoadingDetail' = TRUE
  /\ detailFetches' = Append(detailFetches, [kind |-> "chapter", id |-> n])
  /\ UNCHANGED <<authVars, mounted, layoutRuns, graphData, mountGraphData, cyRef, hidden, nodeColor,
                 selectedPart, chapterDetail, timelineVars>>

TapEdge(id) ==
  /\ CanTap
  /\ id \in EdgeIds(graphData)
  /\ EdgeVisible(graphData, hidden, id)
  /\ Len(detailFetches) < MaxDetailFetches
  /\ selectedEdge' = id
  /\ selectedNode' = Null
  /\ chapterDetail' = Null
  /\ classes' = TapEdgeClasses(graphData, classes, id)
  /\ isLoadingDetail' = TRUE
  /\ detailFetches' = Append(detailFetches, [kind |-> "relationship", id |-> id])
  /\ UNCHANGED <<authVars, mounted, layoutRuns, graphData, mountGraphData, cyRef, hidden, nodeColor,
                 selectedPart, relationshipDetail, timelineVars>>

TapBackground ==
  /\ CanTap
  /\ classes' = ClearHighlight(classes)
  /\ selectedNode' = Null
  /\ selectedEdge' = Null
  /\ chapterDetail' = Null
  /\ relationshipDetail' = Null
  /\ UNCHANGED <<authVars, mounted, layoutRuns, graphData, mountGraphData, cyRef, hidden, nodeColor,
                 selectedPart, isLoadingDetail, detailFetches, timelineVars>>

\* the X button of the detail panel; the panel is rendered for a selection
\* unless the changes panel of timeline mode takes its place
closeDetailPanel ==
  /\ PageRendered
  /\ selectedNode # Null \/ selectedEdge # Null
  /\ ~(isTimelineMode /\ currentSnapshot # NoSnapshot)
  /\ selectedNode' = Null
  /\ selectedEdge' = Null
  /\ chapterDetail' = Null
  /\ relationshipDetail' = Null
  /\ classes' = IF cyRef # Null THEN ClearHighlight(classes) ELSE classes
  /\ UNCHANGED <<authVars, mounted, layoutRuns, graphData, mountGraphData, cyRef, hidden, nodeColor,
                 selectedPart, isLoadingDetail, detailFetches, timelineVars>>

\* the handler after its await: the detail fetch resolved (ok) or rejected
DetailResolve(k, ok) ==
  /\ k \in 1..Len(detailFetches)
  /\ detailFetches' = RemoveAt(detailFetches, k)
  /\ IF mounted
       THEN /\ chapterDetail' =
                 IF ok /\ detailFetches[k].kind = "chapter"
                   THEN detailFetches[k].id ELSE chapterDetail
            /\ relationshipDetail' =
                 IF ok /\ detailFetches[k].kind = "relationship"
                   THEN detailFetches[k].id ELSE relationshipDetail
            /\ isLoadingDetail' = FALSE
       ELSE UNCHANGED <<chapterDetail, relationshipDetail, isLoadingDetail>>
  /\ UNCHANGED <<authVars, mounted, layoutRuns, graphVars, selectedPart, selectedNode, selectedEdge,
                 timelineVars>>

\* the content of the detail panel, as the render chooses it
DetailPanelContent ==
  IF isLoadingDetail THEN "spinner"
  ELSE IF selectedNode # Null /\ chapterDetail # Null THEN "chapter"
  ELSE IF selectedEdge # Null /\ relationshipDetail # Null THEN "relationship"
  ELSE "placeholder"

\* the part filter effect: nodes by part, then edges by their endpoints
FilterHiddenNodes(g, part) == {n \in GraphNodes(g) : NodePart(n) # part}

\* variant: an edge is hidden only when both endpoints are hidden
FilterHiddenEdgesBothHidden(g, hn) ==
  {e.id : e \in {x \in GraphEdges(g) :
                   ~(NodeVisible(hn, x.source) \/ NodeVisible(hn, x.target))}}

FilterHiddenEdges(g, hn) ==
  {e.id : e \in {x \in GraphEdges(g) :
                   ~(NodeVisible(hn, x.source) /\ NodeVisible(hn, x.target))}}

FilterEffect(g, part) ==
  IF part = "all" THEN {}
  ELSE FilterHiddenNodes(g, part) \cup FilterHiddenEdges(g, FilterHiddenNodes(g, part))

\* "Re-layout if filter changed": the filter effect runs a layout for a part
FilterRelayout(part) == part # "all"

\* the domain <select>, rendered outside timeline mode
SetGroupFilter(k) ==
  /\ PageRendered
  /\ ~isTimelineMode
  /\ k # selectedPart
  /\ selectedPart' = k
  /\ hidden' = IF cyRef # Null THEN FilterEffect(graphData, k) ELSE hidden
  /\ layoutRuns' = IF cyRef # Null /\ FilterRelayout(k)
                     THEN (layoutRuns + 1) % 2 ELSE layoutRuns
  /\ UNCHANGED <<authVars, mounted, graphData, mountGraphData, cyRef, classes, nodeColor,
                 selectedNode, selectedEdge, chapterDetail, relationshipDetail,
                 isLoadingDetail, detailFetches, timelineVars>>

\* ------------------------------------------------------- timeline behaviour
Next ==
  \/ \E g \in GraphRevisions : GraphDataLoaded(g)
  \/ \E n \in 0..MaxSnapshots : SnapshotsLoaded(n)
  \/ toggleTimelineMode
  \/ \E t \in timers : Tick(t)
  \/ \E k \in 1..MaxSnapshotFetches, ok \in BOOLEAN : SnapshotResolve(k, ok)
  \/ handlePlay
  \/ handlePause
  \/ handlePrevious
  \/ handleNext
  \/ handleReset
  \/ SkipToEnd
  \/ \E m \in SPEED_OPTIONS : SetSpeed(m)
  \/ \E i \in ScrubInputs : Scrub(i)
  \/ Unmount

Spec == Init /\ [][Next]_vars


\* ------------------------------------------------------ selection behaviour
SelNext ==
  \/ \E g \in GraphRevisions : GraphDataLoaded(g)
  \/ \E n \in GraphNodes("T1") : TapNode(n)
  \/ \E id \in EdgeIds("T1") : TapEdge(id)
  \/ TapBackground
  \/ closeDetailPanel
  \/ \E k \in PartOptions : SetGroupFilter(k)
  \/ \E k \in 1..MaxDetailFetches, ok \in BOOLEAN : DetailResolve(k, ok)
  \/ toggleTimelineMode
  \/ Unmount

SelSpec == Init /\ [][SelNext]_vars


\* -------------------------------------------------- uninterrupted playback
\* The timeline is open on n >= 2 snapshots at an index i below the last
\* one, snapshot i is loaded, and nothing is in flight: the state reached by
\* opening timeline mode and scrubbing to i.  From there only Play is
\* pressed; the timer keeps ticking and every fetch is answered.
PlayInit ==
  /\ mounted = TRUE
  /\ graphData \in GraphRevisions
  /\ mountGraphData \in {"none", graphData}
  /\ cyRef = "cy"
  /\ hidden = {}
  /\ selectedPart = "all"
  /\ selectedNode = Null
  /\ selectedEdge = Null
  /\ chapterDetail = Null
  /\ relationshipDetail = Null
  /\ isLoadingDetail = FALSE
  /\ detailFetches = << >>
  /\ isTimelineMode = TRUE
  /\ \E n \in 2..MaxSnapshots : \E i \in 0..(n - 2) :
       /\ snapshots = SnapshotList(n)
       /\ currentSnapshotIndex = i
       /\ currentSnapshot = i
       /\ nodeColor = updateNodeColorsStyle(
                        updateNodeColorsStyle(NewColors(graphData), 0), i)
       /\ classes = updateNodeColorsClasses(
                      updateNodeColorsClasses(NewClasses(graphData), 0), i)
  /\ isPlaying = FALSE
  /\ playbackSpeed \in SPEED_OPTIONS
  /\ playIntervalRef = NoTimer
  /\ timers = {}
  /\ snapFetches = << >>
  /\ layoutRuns = 0
  /\ SignedIn

PlayNext ==
  \/ handlePlay
  \/ \E t \in timers : Tick(t)
  \/ \E k \in 1..MaxSnapshotFetches, ok \in BOOLEAN : SnapshotResolve(k, ok)

PlaySpec ==
  /\ PlayInit
  /\ [][PlayNext]_vars
  /\ WF_vars(\E t \in timers : Tick(t))
  /\ WF_vars(\E k \in 1..MaxSnapshotFetches, ok \in BOOLEAN : SnapshotResolve(k, ok))

\* ------------------------------------------------------ auth store behaviour
\* No protected page is on screen; the graph page's state is at rest.
PageClosed ==
  /\ mounted = FALSE
  /\ graphData = "none"
  /\ mountGraphData = "none"
  /\ cyRef = Null
  /\ classes = NewClasses("none")
  /\ hidden = {}
  /\ nodeColor = NewColors("none")
  /\ selectedPart = "all"
  /\ selectedNode = Null
  /\ selectedEdge = Null
  /\ chapterDetail = Null
  /\ relationshipDetail = Null
  /\ isLoadingDetail = FALSE
  /\ detailFetches = << >>
  /\ isTimelineMode = FALSE
  /\ snapshots = << >>
  /\ currentSnapshotIndex = 0
  /\ currentSnapshot = NoSnapshot
  /\ isPlaying = FALSE
  /\ playbackSpeed = 100
  /\ playIntervalRef = NoTimer
  /\ timers = {}
  /\ snapFetches = << >>
  /\ layoutRuns = 0

\* create(): token is read from local storage, which may hold one from an
\* earlier visit
AuthInit ==
  /\ PageClosed
  /\ localStorage \in {Null} \cup Tokens
  /\ user = Null
  /\ token = localStorage
  /\ isAuthenticated = FALSE
  /\ isLoading = FALSE
  /\ error = Null
  /\ authCalls = << >>
  /\ loggedOut = FALSE

\* login(credentials), up to the await
login ==
  /\ Len(authCalls) < MaxAuthCalls
  /\ isLoading' = TRUE
  /\ error' = Null
  /\ authCalls' = Append(authCalls, [op |-> "login", token |-> Null])
  /\ UNCHANGED <<user, token, isAuthenticated, localStorage, loggedOut, pageVars>>

\* login after the await: the response carries access_token t, or the
\* request failed
LoginResolve(k, ok, t) ==
  /\ k \in 1..Len(authCalls)
  /\ authCalls[k].op = "login"
  /\ authCalls' = RemoveAt(authCalls, k)
  /\ IF ok
       THEN /\ localStorage' = t
            /\ AuthSet(TheUser, t, TRUE, FALSE, Null)
            /\ loggedOut' = FALSE
       ELSE /\ AuthSet(Null, Null, FALSE, FALSE, LoginFailed)
            /\ UNCHANGED <<localStorage, loggedOut>>
  /\ UNCHANGED pageVars

\* logout(), called by the Layout's button: Layout is rendered only as the
\* children of ProtectedRoute
logout ==
  /\ ProtectedRoute = "children"
  /\ localStorage' = Null
  /\ AuthSet(Null, Null, FALSE, FALSE, Null)
  /\ loggedOut' = TRUE
  /\ UNCHANGED <<authCalls, pageVars>>

\* checkAuth(), called by the mount effect of a ProtectedRoute, up to the
\* await
checkAuth ==
  /\ IF localStorage = Null
       THEN /\ AuthSet(Null, Null, FALSE, FALSE, Null)
            /\ UNCHANGED authCalls
       ELSE /\ Len(authCalls) < MaxAuthCalls
            /\ isLoading' = TRUE
            /\ authCalls' = Append(authCalls,
                                   [op |-> "checkAuth", token |-> localStorage])
            /\ UNCHANGED <<user, token, isAuthenticated, error>>
  /\ UNCHANGED <<localStorage, loggedOut, pageVars>>

\* checkAuth after the await: getCurrentUser answered or failed
CheckAuthResolve(k, ok) ==
  /\ k \in 1..Len(authCalls)
  /\ authCalls[k].op = "checkAuth"
  /\ authCalls' = RemoveAt(authCalls, k)
  /\ IF ok
       THEN /\ AuthSet(TheUser, authCalls[k].token, TRUE, FALSE, Null)
            /\ UNCHANGED localStorage
       ELSE /\ localStorage' = Null
            /\ AuthSet(Null, Null, FALSE, FALSE, Null)
  /\ UNCHANGED <<loggedOut, pageVars>>

clearError ==
  /\ error' = Null
  /\ UNCHANGED <<user, token, isAuthenticated, isLoading, localStorage,
                 authCalls, loggedOut, pageVars>>

AuthNext ==
  \/ login
  \/ \E k \in 1..MaxAuthCalls, ok \in BOOLEAN, t \in Tokens : LoginResolve(k, ok, t)
  \/ logout
  \/ checkAuth
  \/ \E k \in 1..MaxAuthCalls, ok \in BOOLEAN : CheckAuthResolve(k, ok)
  \/ clearError

AuthSpec == AuthInit /\ [][AuthNext]_vars

\* ================================================================ properties
LastIndex == Len(snapshots) - 1

IndexInBounds ==
  Len(snapshots) > 0 => (0 <= currentSnapshotIndex /\ currentSnapshotIndex <= LastIndex)

PlaybackOp ==
  \/ handlePlay
  \/ handlePause
  \/ handlePrevious
  \/ handleNext
  \/ handleReset
  \/ SkipToEnd
  \/ \E m \in SPEED_OPTIONS : SetSpeed(m)
  \/ \E i \in ScrubInputs : Scrub(i)
  \/ \E t \in timers : Tick(t)

\* C1: whenever at least one snapshot exists, after every playback operation
\* (play, tick, pause, next, previous, reset, skip-to-end, scrub, setSpeed)
\* 0 <= currentSnapshotIndex <= snapshots.length - 1.
C1_IndexInBoundsAfterEveryOp == [][PlaybackOp => IndexInBounds']_vars

\* C2: at most one playback timer is live in every reachable state, the live
\* timer is the one playIntervalRef holds, and after unmount no timer is live.
C2_SingleTimer ==
  /\ Cardinality(timers) <= 1
  /\ \A t \in timers : t.id = playIntervalRef
  /\ ~mounted => timers = {}

\* C2 witness: the page was unmounted while playing; the ref still names the
\* timer that the cleanup cleared.
C2_Witness ==
  ~mounted /\ isPlaying /\ playIntervalRef # NoTimer /\ timers = {}

\* C3: a detail response is applied only for the current selection: a step
\* that stores a chapter (relationship) payload stores the payload of the
\* node (edge) selected at that moment, so a superseded response changes
\* nothing.
C3_StaleDetailNeverApplied ==
  [][/\ (chapterDetail' # chapterDetail /\ chapterDetail' # Null)
          => chapterDetail' = selectedNode'
     /\ (relationshipDetail' # relationshipDetail /\ relationshipDetail' # Null)
          => relationshipDetail' = selectedEdge']_vars

PlaybackEnded ==
  ~isPlaying /\ currentSnapshotIndex = LastIndex /\ timers = {}

\* C4: after play() below the last index, with ticks firing and nothing else
\* intervening, playback eventually stands at the last index, stopped and
\* with no live timer, and the index never exceeds the last one on the way.
C4_PlaybackTerminates ==
  /\ isPlaying ~> PlaybackEnded
  /\ [](currentSnapshotIndex <= LastIndex)

\* C4 witness: playback ran to the end and the last snapshot is loaded.
C4_Witness ==
  /\ PlaybackEnded
  /\ playIntervalRef = NoTimer
  /\ snapFetches = << >>
  /\ currentSnapshot = LastIndex

\* C5: the tick that moves currentSnapshotIndex to the last index ends
\* playback in that same step: right after it isPlaying is false and no
\* timer is live.
C5_TickToLastEndsPlayback ==
  [][((\E t \in timers : Tick(t))
        /\ currentSnapshotIndex' # currentSnapshotIndex
        /\ currentSnapshotIndex' = LastIndex')
       => (~isPlaying' /\ timers' = {})]_vars

\* C6: after a tap on node N the highlighted set is N, every edge incident
\* to N and the other endpoint of each such edge, and the faded set is every
\* other element.
NodeNeighbourhood(g, n) ==
  {n} \cup {e.id : e \in {x \in GraphEdges(g) : x.source = n \/ x.target = n}}
      \cup {x.source : x \in {y \in GraphEdges(g) : y.target = n}}
      \cup {x.target : x \in {y \in GraphEdges(g) : y.source = n}}

C6_NodeHighlight ==
  [][\A n \in GraphNodes("T1") :
       TapNode(n) =>
         /\ highlighted' = NodeNeighbourhood(graphData, n)
         /\ faded' = Elements(graphData) \ highlighted']_vars

\* C7: after setGroupFilter(k) a node is visible iff k is 'all' or its part
\* is k, and an edge is displayed iff both its endpoints are visible.
VisibilityRule ==
  /\ \A n \in GraphNodes(graphData) :
       NodeVisible(hidden, n) <=> (selectedPart = "all" \/ NodePart(n) = selectedPart)
  /\ \A e \in GraphEdges(graphData) :
       (e.id \notin hidden) <=> (e.source \notin hidden /\ e.target \notin hidden)

C7_FilterVisibility == [][selectedPart' # selectedPart => VisibilityRule']_vars

\* C7 witness: filter II is active; e1 (inside II) is shown and e2, which
\* leaves II, is hidden although its source II-4 is shown.
C7_Witness ==
  /\ selectedPart = "II"
  /\ cyRef # Null
  /\ {"II-1", "II-4", "e1"} \cap hidden = {}
  /\ {"III-2", "e2"} \subseteq hidden

\* C8: scrub(i), for any integer i and from any playback state, sets
\* currentSnapshotIndex to clamp(i, 0, last), stops playback and leaves no
\* timer live.
Clamp(i, lo, hi) == IF i < lo THEN lo ELSE IF i > hi THEN hi ELSE i

C8_ScrubClamps ==
  [][TimelineControlsShown =>
       \A i \in ScrubInputs :
         Scrub(i) =>
           /\ currentSnapshotIndex' = Clamp(i, 0, LastIndex)
           /\ ~isPlaying'
           /\ timers' = {}
           /\ playIntervalRef' = NoTimer]_vars

\* C8 witness: the cursor stands on the last of MaxSnapshots snapshots with
\* playback stopped and the fetch for that index just issued.
C8_Witness ==
  /\ isTimelineMode
  /\ Len(snapshots) = MaxSnapshots
  /\ currentSnapshotIndex = LastIndex
  /\ ~isPlaying
  /\ timers = {}
  /\ snapFetches # << >>
  /\ snapFetches[Len(snapFetches)] = LastIndex
  /\ currentSnapshot = 0

\* C9: a snapshot response is applied only while it is still relevant: a
\* step that replaces currentSnapshot or recolours nodes does so with the
\* snapshot of the current index.
C9_StaleSnapshotNeverApplied ==
  [][(\E k \in 1..MaxSnapshotFetches, ok \in BOOLEAN : SnapshotResolve(k, ok))
       /\ (currentSnapshot' # currentSnapshot \/ nodeColor' # nodeColor
             \/ classes' # classes)
       => currentSnapshot' = currentSnapshotIndex']_vars

\* C10: snapshot details are cached by index: no getSnapshot call is issued
\* for an index whose detail has already resolved, such as the index of the
\* snapshot currently held.
C10_NoRefetchOfResolvedIndex ==
  [][Len(snapFetches') > Len(snapFetches)
       => snapFetches'[Len(snapFetches')] # currentSnapshot]_vars

\* C11: a rejected getSnapshot is caught inside loadSnapshot: the step that
\* consumes the rejection leaves currentSnapshot, the node colours and the
\* improved/declined flags as they were, and the page stays mounted with its
\* timeline state untouched.
C11_FailureKeepsLastSnapshot ==
  [][\A k \in 1..MaxSnapshotFetches :
       SnapshotResolve(k, FALSE) =>
         UNCHANGED <<mounted, graphVars, selectionVars, isTimelineMode, snapshots,
                     currentSnapshotIndex, currentSnapshot, isPlaying,
                     playbackSpeed, playIntervalRef, timers>>]_vars

\* C11 witness: playback started on snapshot 0 and ticked to index 1; the
\* only fetch issued since (for index 1) has been consumed, and snapshot 0
\* with its colours and flags is still the one on display.
C11_Witness ==
  /\ mounted
  /\ isTimelineMode
  /\ currentSnapshotIndex = 1
  /\ snapFetches = << >>
  /\ currentSnapshot = 0
  /\ nodeColor = updateNodeColorsStyle(NewColors(graphData), 0)
  /\ classes = updateNodeColorsClasses(NewClasses(graphData), 0)

\* C12: classification uses the fixed epsilon 0.1 with strict comparisons.
\* Every node that updateNodeColors classifies ends up flagged improved iff
\* its delta is above 0.1, declined iff it is below -0.1 and unflagged
\* otherwise (a delta of exactly 0.1 or -0.1 is unchanged; a node without a
\* change entry is unchanged); no node ever carries both flags; the icon of
\* the changes panel follows the same classes.
ChangeFlags == {"improved", "declined"}

Classify(delta) ==
  IF delta > 10 THEN "Improved" ELSE IF delta < -10 THEN "Declined" ELSE "Unchanged"

FlagsOf(class) ==
  CASE class = "Improved" -> {"improved"}
    [] class = "Declined" -> {"declined"}
    [] class = "Unchanged" -> {}

IconOf(class) ==
  CASE class = "Improved" -> "TrendingUp"
    [] class = "Declined" -> "TrendingDown"
    [] class = "Unchanged" -> "Minus"

\* the delta the payload of snapshot i reports for chapter n (0 when absent)
DeltaOf(i, n) ==
  LET changes == SnapshotChanges(i)
      hits == {k \in 1..Len(changes) : changes[k].chapter_id = n}
  IN IF hits = {} THEN 0 ELSE changes[Min(hits)].change

DeltaRange == -101 .. 101

ScoreRange == 0 .. 500

Bands == {"green", "yellow", "orange", "red"}

InBand(score, band) ==
  CASE band = "green" -> score >= 400
    [] band = "yellow" -> 300 <= score /\ score < 400
    [] band = "orange" -> 200 <= score /\ score < 300
    [] band = "red" -> score < 200

BandColor(band) ==
  CASE band = "green" -> "#16a34a"
    [] band = "yellow" -> "#eab308"
    [] band = "orange" -> "#f97316"
    [] band = "red" -> "#dc2626"

BandsPartitionScores ==
  \A score \in ScoreRange :
    /\ Cardinality({b \in Bands : InBand(score, b)}) = 1
    /\ \A b \in Bands : InBand(score, b) => getScoreColor(score) = BandColor(b)

C13_ScoreBands ==
  /\ []BandsPartitionScores
  /\ [][\A k \in 1..Len(snapFetches) :
          (mounted /\ cyRef # Null /\ SnapshotResolve(k, TRUE)) =>
            \A n \in GraphNodes(graphData) : \A b \in Bands :
              (/\ SnapshotScores(snapFetches[k])[n] # NoScore
               /\ InBand(SnapshotScores(snapFetches[k])[n], b))
                => nodeColor'[n] = BandColor(b)]_vars

\* C13 witness: playback over two snapshots started on snapshot 0 and
\* painted snapshot 1: I-1 (exactly 4.0) is green, II-1 (3.1) yellow, III-2
\* (exactly 2.0) orange and II-4 (1.99) red.
C13_Witness ==
  /\ Len(snapshots) = 2
  /\ currentSnapshot = 1
  /\ currentSnapshotIndex = 1
  /\ cyRef # Null
  /\ nodeColor["I-1"] = "#16a34a"
  /\ nodeColor["II-1"] = "#eab308"
  /\ nodeColor["III-2"] = "#f97316"
  /\ nodeColor["II-4"] = "#dc2626"

\* C14: after a tap on edge E = (S, T) the highlighted set is exactly
\* {E, S, T} and every other node and edge is faded, whatever was selected
\* before.
C14_EdgeHighlight ==
  [][\A id \in EdgeIds("T1") :
       TapEdge(id) =>
         /\ highlighted' = {id, EdgeById(graphData, id).source,
                                EdgeById(graphData, id).target}
         /\ faded' = Elements(graphData) \ highlighted'
         /\ highlighted' \cap faded' = {}]_vars

\* C14 witness: III-2 was tapped (its detail is still being fetched), then
\* edge e1 = (II-1, II-4): only e1 and its endpoints are highlighted, and
\* III-2 and e2, highlighted by the earlier tap, are now faded.
C14_Witness ==
  /\ selectedEdge = "e1"
  /\ selectedNode = Null
  /\ detailFetches = << [kind |-> "chapter", id |-> "III-2"],
                        [kind |-> "relationship", id |-> "e1"] >>
  /\ highlighted = {"e1", "II-1", "II-4"}
  /\ faded = {"I-1", "III-2", "e2"}

\* C15: a tap on the background, or closing the detail panel, after any
\* sequence of selections leaves the highlighted set and the faded set both
\* empty and no node or edge selected.
C15_BackgroundClears ==
  [][(TapBackground \/ closeDetailPanel) =>
       /\ highlighted' = {}
       /\ faded' = {}
       /\ selectedNode' = Null
       /\ selectedEdge' = Null]_vars

\* C15 witness: a node and then an edge were tapped (both detail fetches are
\* still in flight) and the selection was cleared: nothing is highlighted,
\* faded or selected.
C15_Witness ==
  /\ mounted
  /\ cyRef # Null
  /\ Len(detailFetches) = 2
  /\ detailFetches[1].kind = "chapter"
  /\ detailFetches[2].kind = "relationship"
  /\ selectedNode = Null
  /\ selectedEdge = Null
  /\ highlighted = {}
  /\ faded = {}

\* C16: a failed detail fetch ends in an error state scoped to the selection
\* that issued it and changes nothing else.  The page has no error flag; the
\* nearest state it can present is a selection whose panel, no longer
\* loading, shows no payload.  So: the step that consumes a rejection leaves
\* the selection, the highlight/fade classes, the timeline state and the
\* current snapshot unchanged; if the rejected fetch was issued by the
\* current selection the panel then shows no payload for it; and if it was
\* issued by an earlier selection the loading state is unchanged.
SelectionIs(f) ==
  \/ f.kind = "chapter" /\ selectedNode = f.id
  \/ f.kind = "relationship" /\ selectedEdge = f.id

DetailUnavailable ==
  /\ selectedNode # Null \/ selectedEdge # Null
  /\ DetailPanelContent = "placeholder"

C16_DetailFailureScoped ==
  [][\A k \in 1..MaxDetailFetches :
       (DetailResolve(k, FALSE) /\ mounted) =>
         /\ UNCHANGED <<selectedNode, selectedEdge, classes, hidden, nodeColor,
                        timelineVars>>
         /\ SelectionIs(detailFetches[k]) => DetailUnavailable'
         /\ ~SelectionIs(detailFetches[k]) => isLoadingDetail' = isLoadingDetail]_vars

\* C17: play() takes effect only below the last index.  From a paused state
\* at the last index no step makes the status Playing or creates a timer
\* (the Play button is disabled there); pressed below the last index, with
\* no timer live, it leaves the index alone, makes the status Playing and
\* starts exactly one timer, the one playIntervalRef holds.
C17_PlayOnlyBelowLast ==
  [][/\ (~isPlaying /\ Len(snapshots) > 0 /\ currentSnapshotIndex >= LastIndex)
          => (~isPlaying' /\ timers' = {})
     /\ handlePlay =>
          /\ currentSnapshotIndex < LastIndex
          /\ timers = {}
          /\ isPlaying'
          /\ currentSnapshotIndex' = currentSnapshotIndex
          /\ Cardinality(timers') = 1
          /\ \A t \in timers' : t.id = playIntervalRef']_vars

\* C17 witness: Play was pressed on snapshot 0 of several: the status is
\* Playing and one timer runs at the 1x interval.
C17_Witness ==
  /\ isPlaying
  /\ currentSnapshotIndex = 0
  /\ currentSnapshot = 0
  /\ LastIndex >= 1
  /\ playbackSpeed = 100
  /\ timers = {[id |-> playIntervalRef, len |-> Len(snapshots),
                interval |-> BaseIntervalMs]}

\* C18: next() and previous() stop playback, leaving no timer live, and move
\* currentSnapshotIndex by exactly +1 / -1 clamped to [0, last]; the
\* resulting status is not Playing.
C18_StepClamped ==
  [][/\ handleNext =>
          /\ currentSnapshotIndex' = Clamp(currentSnapshotIndex + 1, 0, LastIndex)
          /\ ~isPlaying'
          /\ timers' = {}
     /\ handlePrevious =>
          /\ currentSnapshotIndex' = Clamp(currentSnapshotIndex - 1, 0, LastIndex)
          /\ ~isPlaying'
          /\ timers' = {}]_vars

\* C19: pause() from Playing cancels the timer and leaves the index (and the
\* rest of the timeline state) unchanged, and it is idempotent: in a state
\* that is not Playing, such as the one pause() leaves, setIsPlaying(false)
\* changes no state, so pause(); pause() ends where pause() does.
C19_PauseIdempotent ==
  /\ [](~isPlaying => ~ENABLED (setIsPlaying(FALSE) /\ vars' # vars))
  /\ [][handlePause =>
          /\ ~isPlaying'
          /\ timers' = {}
          /\ playIntervalRef' = NoTimer
          /\ UNCHANGED <<currentSnapshotIndex, snapshots, currentSnapshot,
                         snapFetches, playbackSpeed, isTimelineMode>>]_vars

\* C19 witness: playback at 2x was paused in the middle of three snapshots:
\* no timer, the ref cleared, the index and its loaded snapshot in place.
C19_Witness ==
  /\ TimelineControlsShown
  /\ ~isPlaying
  /\ timers = {}
  /\ playIntervalRef = NoTimer
  /\ playbackSpeed = 200
  /\ Len(snapshots) = 3
  /\ currentSnapshotIndex = 1
  /\ currentSnapshot = 1
  /\ snapFetches = << >>

\* C20: setSpeed(m) while Playing cancels the running timer and schedules
\* exactly one new timer whose interval is 2000/m ms (4000, 2000, 1000, 500
\* for m = 0.5, 1, 2, 4), with the index and the Playing status unchanged;
\* setSpeed(m) while not Playing creates no timer.
IntervalMs(m) ==
  CASE m = 50 -> 4000
    [] m = 100 -> 2000
    [] m = 200 -> 1000
    [] m = 400 -> 500

C20_SetSpeedReschedules ==
  [][\A m \in SPEED_OPTIONS :
       SetSpeed(m) =>
         /\ playbackSpeed' = m
         /\ currentSnapshotIndex' = currentSnapshotIndex
         /\ isPlaying' = isPlaying
         /\ isPlaying =>
              /\ Cardinality(timers') = 1
              /\ timers' \cap timers = {}
              /\ \A t \in timers' :
                   t.interval = IntervalMs(m) /\ t.id = playIntervalRef'
         /\ ~isPlaying => timers' = {}]_vars

\* C20 witness: playback runs at 4x on one timer of 500 ms, after the speed
\* was raised from the initial 1x while playing.
C20_Witness ==
  /\ isPlaying
  /\ playbackSpeed = 400
  /\ currentSnapshotIndex < LastIndex
  /\ timers = {[id |-> playIntervalRef, len |-> Len(snapshots), interval |-> 500]}

\* C21: the index moves only by a tick's +1 while playback runs; every other
\* change of currentSnapshotIndex is made by an operation that stops
\* playback and cancels the timer, so no jump happens while a timer is live.
C21_NoJumpWhileTimerLive ==
  [][currentSnapshotIndex' # currentSnapshotIndex =>
       \/ /\ \E t \in timers : Tick(t)
          /\ currentSnapshotIndex' = currentSnapshotIndex + 1
       \/ /\ ~isPlaying'
          /\ timers' = {}]_vars

\* C22: whenever timeline mode is off, every node of the live graph is drawn
\* in its static base colour and carries neither the improved nor the
\* declined flag, also after a snapshot fetch issued earlier resolves.
C22_BaseColorsOutsideTimeline ==
  (~isTimelineMode /\ cyRef # Null) =>
    \A n \in GraphNodes(graphData) :
      /\ nodeColor[n] = NodeBaseColor(n)
      /\ classes[n] \cap ChangeFlags = {}

\* C23: every change of the part filter, to a part or back to 'all', makes
\* the filter effect run a layout.
C23_FilterChangeRelayouts ==
  [][selectedPart' # selectedPart => layoutRuns' # layoutRuns]_vars

\* C24: the loading state lasts until the detail fetch of the current
\* selection completes: while the panel is loading, the newest fetch in
\* flight is the one the current selection issued, and the completion
\* (success or failure) of an older, superseded fetch for another element
\* leaves isLoadingDetail true.
NewestFetch == detailFetches[Len(detailFetches)]

C24_LoadingUntilOwnFetch ==
  [][\A k \in 1..Len(detailFetches) : \A ok \in BOOLEAN :
       (/\ mounted
        /\ isLoadingDetail
        /\ k < Len(detailFetches)
        /\ detailFetches[k] # NewestFetch
        /\ SelectionIs(NewestFetch)
        /\ DetailResolve(k, ok))
         => isLoadingDetail']_vars

\* C25: whenever a node is selected and the detail panel is not loading, the
\* chapter payload held for display is absent or is the payload of the
\* selected node.
C25_ChapterDetailOfSelectedNode ==
  (mounted /\ selectedNode # Null /\ ~isLoadingDetail) =>
    chapterDetail \in {Null, selectedNode}

\* C26: whenever nothing is selected, no detail payload is held: after a
\* background tap or closing the panel chapterDetail and relationshipDetail
\* are null and stay null until the next selection, also when a fetch issued
\* by the earlier selection resolves afterwards.
C26_NoDetailWithoutSelection ==
  (mounted /\ selectedNode = Null /\ selectedEdge = Null) =>
    (chapterDetail = Null /\ relationshipDetail = Null)

\* C27: after a snapshot S has been applied, every node's colour and flags
\* are determined by S alone: a node with a score in S has the colour of its
\* band and the flag of its delta, and a node without a score in S has its
\* base colour and no flag, whatever was applied before.
ColorIn(i, n) ==
  IF SnapshotScores(i)[n] # NoScore
    THEN getScoreColor(SnapshotScores(i)[n])
    ELSE NodeBaseColor(n)

FlagsIn(i, n) ==
  IF SnapshotScores(i)[n] # NoScore
    THEN FlagsOf(Classify(DeltaOf(i, n)))
    ELSE {}

C27_SnapshotAloneDeterminesNodes ==
  [][(mounted /\ cyRef # Null /\ Len(snapFetches') < Len(snapFetches)) =>
       \A k \in 1..Len(snapFetches) :
         SnapshotResolve(k, TRUE) =>
           \A n \in GraphNodes(graphData) :
             /\ nodeColor'[n] = ColorIn(snapFetches[k], n)
             /\ classes'[n] \cap ChangeFlags = FlagsIn(snapFetches[k], n)]_vars

\* C28: whenever snapshots is non-empty the index lies in
\* [0, snapshots.length - 1], also after the list itself was replaced, and
\* no snapshot is requested for an index beyond the last one.
C28_IndexInBoundsAcrossReload ==
  /\ []IndexInBounds
  /\ [][(Len(snapFetches') > Len(snapFetches)) =>
          snapFetches'[Len(snapFetches')] <= LastIndex']_vars

\* C29: the visibility rule of the part filter holds in every state of a
\* live graph, not only right after the filter was changed: also after the
\* graph was rebuilt from reloaded data while a part is selected.
C29_FilterVisibilityAlways == (mounted /\ cyRef # Null) => VisibilityRule

\* C30: once logout() has run, the auth store stays signed out (user null,
\* token null, isAuthenticated false, no token in local storage) until a
\* login() succeeds; a checkAuth() that was in flight at the logout restores
\* nothing when it resolves.
StoreSignedOut ==
  /\ user = Null
  /\ token = Null
  /\ ~isAuthenticated
  /\ localStorage = Null
C30_SignedOutUntilLogin == loggedOut => StoreSignedOut

====
